---- MODULE Spec2Model ----
(***************************************************************************)
(* Reminder scheduling and adherence state machine of medi-remainder.      *)
(*                                                                         *)
(* lib/reminderService.ts  : tick source, due-reminder resolver,           *)
(*                           dispatcher, adherence upsert, lifecycle       *)
(* components/ReminderModal: the modal's countdown and mark handlers       *)
(* components/AdherenceTracker: the tracker's mark handlers                *)
(* App.tsx                 : sign-in / sign-out wiring of the service      *)
(*                                                                         *)
(* Time is counted in whole seconds (`now`); the JavaScript event loop is  *)
(* modelled as interleaving of atomic steps, one per synchronous block     *)
(* between two awaits or timer callbacks.                                  *)
(***************************************************************************)
EXTENDS Integers, Sequences, FiniteSets, TLC

(***************************************************************************)
(* Bounds of the model                                                     *)
(***************************************************************************)
MaxNow == 365          \* last instant (seconds) the clock reaches
MaxNowLifecycle == 125 \* the same, where only the service's lifecycle is looked at
MaxNowFetch == 60      \* the same, where only the resolver is looked at
SubSeconds == 1        \* seconds 0..SubSeconds of every minute are visited one by one
MaxDate == 1           \* UTC dates 0..MaxDate
MaxStarts == 2         \* startReminderService calls that pass the guard
MaxStops == 2          \* stopReminderService calls made outside the App's effect
MaxEvals == 2          \* checkAndNotifyReminders evaluations in flight
MaxCalls == 2          \* recordAdherenceStatus calls in flight
MaxLogs == 2           \* rows of adherence_logs
MaxFailures == 1       \* storage operations that fail
MaxUserOps == 1        \* user operations (marks, closes) on the UI
MaxMarks == 2          \* the same, where only the tracker's marks are looked at
MaxNowMarks == 120     \* last instant of the clock there
MaxNowCore == 180      \* last instant of the clock for the service used on its own

(***************************************************************************)
(* Program constants                                                       *)
(***************************************************************************)
AUTO_NOT_TAKEN_TIMEOUT_MS == 300000   \* 5 * 60 * 1000
ESCALATION_WINDOW_DAYS == 3
MISSED_DAYS_THRESHOLD == 3
NOTIFICATION_AUTO_CLOSE_MS == 10000
DEDUP_CLEANUP_MS == 61000
CHECK_INTERVAL_MS == 60000
MS_PER_SECOND == 1000
SECONDS_PER_MINUTE == 60
MINUTES_PER_HOUR == 60
HOURS_PER_DAY == 24

Users == {"u1", "u2"}
Meds == {"m1", "m2"}
NoUser == "none"
NoMed == "none"
NoTime == <<99, 99>>
NoReminder == [id |-> NoMed, reminder_time |-> NoTime]
Statuses == {"taken", "missed", "not_taken_auto"}

VARIABLES
  now,                    \* wall clock, seconds since local 00:00:00 of the first day
  today,                  \* UTC calendar date (new Date().toISOString().split('T')[0])
  medications,            \* table medications: id -> [user_id, active]
  medication_schedules,   \* table medication_schedules: set of [id, medication_id, reminder_time, active]
  adherence_logs,         \* table adherence_logs: set of rows
  family_members,         \* table family_members: set of [id, user_id, email]
  alerts,                 \* send-alert requests made to the edge function, in order
  timers,                 \* pending timers of the JavaScript runtime
  reminderCheckInterval,  \* module variable: handle or 0
  nextCheckTimeout,       \* module variable: handle or 0
  lastNotifiedReminders,  \* module variable: set of reminderId
  reminderCallback,       \* module variable: handler or "null"
  pageRefreshCallback,    \* module variable: handler or "null"
  autoMarkTimeouts,       \* module variable: set of <<key, handle>>
  evals,                  \* checkAndNotifyReminders evaluations in flight
  calls,                  \* recordAdherenceStatus calls in flight
  sweep,                  \* the checkMissedMedications run in flight
  user,                   \* useAuth().user of the page
  activeReminder,         \* App state: the reminder the modal shows
  modal,                  \* ReminderModal state: [isLoading, isAutoClosing, countdown]
  todayReminders,         \* AdherenceTracker state: set of [medication, time, log]
  permission,             \* Notification.permission of the browser
  hist                    \* history of what happened (not program state)

vars == <<now, today, medications, medication_schedules, adherence_logs,
          family_members, alerts, sweep, timers,
          reminderCheckInterval, nextCheckTimeout, lastNotifiedReminders,
          reminderCallback, pageRefreshCallback, autoMarkTimeouts, evals, calls,
          user, activeReminder, modal, todayReminders, permission, hist>>

dbVars == <<medications, medication_schedules>>
svcVars == <<reminderCheckInterval, nextCheckTimeout, lastNotifiedReminders,
             autoMarkTimeouts>>
cbVars == <<reminderCallback, pageRefreshCallback>>
uiVars == <<user, activeReminder, modal, todayReminders>>

(***************************************************************************)
(* Clock                                                                   *)
(***************************************************************************)
getHours(t) == (t \div (SECONDS_PER_MINUTE * MINUTES_PER_HOUR)) % HOURS_PER_DAY
getMinutes(t) == (t \div SECONDS_PER_MINUTE) % MINUTES_PER_HOUR
getSeconds(t) == t % SECONDS_PER_MINUTE

\* `${hours}:${minutes}`, both padded to two digits
getCurrentTimeString(t) == <<getHours(t), getMinutes(t)>>

\* new Date().toISOString(): the UTC date (the time of day is not kept)
toISOString == <<today>>

\* `${today}T${reminderTime}`
getScheduledDateTime(date, reminderTime) == <<date, reminderTime>>

getReminderKey(userId, medicationId, reminderTime) == <<userId, medicationId, reminderTime>>

(***************************************************************************)
(* The JavaScript runtime's timers.  A timer is                            *)
(*   [id, kind, due, user, med, time, date]                                *)
(* kind "align"    : the boundary-alignment setTimeout of the service      *)
(*      "interval" : the recurring setInterval of the service              *)
(*      "auto"     : the auto-mark setTimeout of scheduleAutoMarkNotTaken  *)
(*      "dedup"    : the 61 s cleanup setTimeout of the dispatcher         *)
(*      "countdown": the modal's countdown reaching zero                   *)
(*      "close"    : the 10 s auto-close setTimeout of a notification      *)
(* `date` is the UTC date at which the timer was armed (history only).     *)
(***************************************************************************)
Timer(id, kind, due, u, m, t, d) ==
  [id |-> id, kind |-> kind, due |-> due, user |-> u, med |-> m, time |-> t, date |-> d]

\* clearTimeout(handle) / clearInterval(handle); a handle of a timer that has
\* fired or was cleared before is ignored
clearTimeout(ts, handle) == {t \in ts : t.id # handle}

TimerIds(ts) == {t.id : t \in ts}

\* The handle setTimeout / setInterval returns: one that no pending timer has
\* and no variable of the program still holds
HandlesHeld(st) ==
  TimerIds(st.timers) \cup {st.rci, st.nct, st.modal.countdown} \cup {e[2] : e \in st.amt}
FreshId(st) == CHOOSE n \in 1..(Cardinality(HandlesHeld(st)) + 1) : n \notin HandlesHeld(st)

\* autoMarkTimeouts.get(key): the handle, or 0 when the map has no entry
MapGet(map, key) ==
  IF \E e \in map : e[1] = key THEN (CHOOSE e \in map : e[1] = key)[2] ELSE 0
MapDelete(map, key) == {e \in map : e[1] # key}
MapSet(map, key, handle) == MapDelete(map, key) \cup {<<key, handle>>}

(***************************************************************************)
(* History: what the claims speak about and the program does not store.    *)
(***************************************************************************)
NoSdt == <<0, NoTime>>

\* type "dispatch": a due reminder was surfaced; src is the route taken, flag
\*                  says whether the service was started at that moment, status
\*                  what came of it ("modal", "shown", "silent", "threw"),
\*                  armed whether the occurrence's auto-mark timer was pending
\*                  and refreshes how often the page-refresh callback had been
\*                  called when the route was entered
\*      "mark"    : a user handler started; src is the handler
\*      "fire"    : an auto-mark timer fired; flag says whether a taken/missed
\*                  record of its occurrence was stored at that moment
\*      "write"   : a row was inserted (prev = "none") or updated (prev = old status)
\*      "done"    : a recordAdherenceStatus call of src returned; flag = it wrote
\* occ is the scheduled datetime of the occurrence the caller acts for.
NoEvent ==
  [type |-> "none", src |-> "none", user |-> NoUser, med |-> NoMed, sdt |-> NoSdt,
   occ |-> NoSdt, status |-> "none", prev |-> "none", at |-> 0, epoch |-> 0,
   flag |-> FALSE, armed |-> FALSE, refreshes |-> 0]

HistInit ==
  [events |-> <<>>,      \* the events, in order
   lastOp |-> "other",   \* "start" / "stop" when that call made the last step,
                         \* "stop2" when a stop call followed a stop call
   started |-> FALSE,    \* a start call happened and no stop since
   epoch |-> 0,          \* stopReminderService runs so far
   stopCalls |-> 0,      \* of them, the ones not made by the App's effect
   starts |-> 0,         \* start calls that passed the guard
   writeFailures |-> 0,  \* failures that were an insert or update
   sweeps |-> 0,         \* checkMissedMedications runs
   evalsRun |-> 0,       \* checkAndNotifyReminders runs started
   failures |-> 0,       \* storage operations that failed
   userOps |-> 0,        \* user operations on the UI
   caught |-> 0,         \* exceptions the catch of checkAndNotifyReminders logged
   swept |-> <<>>,       \* threeDaysAgo of the sweep that has returned, if one has
   notices |-> 0,        \* 'Family Alert Triggered' notifications shown
   refreshes |-> 0,      \* calls of the registered page-refresh callback
   refreshed |-> "null", \* the page-refresh handler called last
   handler |-> "null",   \* the reminder handler a client registered last
   refresher |-> "null", \* the page-refresh handler a client registered last
   fetched |-> <<>>]     \* what the last fetchDueReminders returned, with its inputs

(***************************************************************************)
(* The mutable state a handler works on, as one record; an action applies  *)
(* the handler to Mem and commits the result.                              *)
(***************************************************************************)
Mem ==
  [logs |-> adherence_logs, timers |-> timers,
   rci |-> reminderCheckInterval, nct |-> nextCheckTimeout,
   lnr |-> lastNotifiedReminders, cb |-> reminderCallback,
   prcb |-> pageRefreshCallback, amt |-> autoMarkTimeouts,
   evals |-> evals, calls |-> calls, user |-> user, active |-> activeReminder,
   modal |-> modal, tracker |-> todayReminders, perm |-> permission,
   sweep |-> sweep, alerts |-> alerts, hist |-> hist]

Commit(st) ==
  /\ adherence_logs' = st.logs
  /\ timers' = st.timers
  /\ reminderCheckInterval' = st.rci
  /\ nextCheckTimeout' = st.nct
  /\ lastNotifiedReminders' = st.lnr
  /\ reminderCallback' = st.cb
  /\ pageRefreshCallback' = st.prcb
  /\ autoMarkTimeouts' = st.amt
  /\ evals' = st.evals
  /\ calls' = st.calls
  /\ user' = st.user
  /\ activeReminder' = st.active
  /\ modal' = st.modal
  /\ todayReminders' = st.tracker
  /\ sweep' = st.sweep
  /\ alerts' = st.alerts
  /\ hist' = st.hist

Op(st, name) == [st EXCEPT !.hist.lastOp = name]
Emit(st, e) ==
  [st EXCEPT !.hist.events =
     Append(@, [e EXCEPT !.at = IF e.type = "dispatch" THEN now ELSE 0,
                         !.epoch = st.hist.epoch])]

(***************************************************************************)
(* The page: App renders the modal while a user is signed in and           *)
(* activeReminder is set; the modal's countdown starts when it mounts.     *)
(***************************************************************************)
NoModal == [mounted |-> FALSE, isLoading |-> FALSE, isAutoClosing |-> FALSE, countdown |-> 0]

\* setTimeRemaining(REMINDER_TIMEOUT_MS / 1000), one tick per second
CountdownSeconds == AUTO_NOT_TAKEN_TIMEOUT_MS \div MS_PER_SECOND

\* setActiveReminder(r) followed by React's render of <ReminderModal>
setActiveReminder(st, r) ==
  IF st.user # NoUser /\ r # NoReminder
    THEN IF st.modal.mounted
           THEN [st EXCEPT !.active = r]
           ELSE [st EXCEPT
                   !.active = r,
                   !.modal = [mounted |-> TRUE, isLoading |-> FALSE,
                              isAutoClosing |-> FALSE, countdown |-> FreshId(st)],
                   !.timers = @ \cup {Timer(FreshId(st), "countdown", now + CountdownSeconds,
                                            st.user, r.id, r.reminder_time, today)}]
    ELSE [st EXCEPT
            !.active = r,
            !.modal = NoModal,
            !.timers = clearTimeout(@, st.modal.countdown)]

\* the same with the callback never called
InvokePageRefreshNever(st) == st

\* Dashboard's refreshCallback: setRefreshTrigger makes the tracker reload
InvokePageRefresh(st) ==
  IF st.prcb = "null" THEN st
  ELSE IF st.prcb = "dashboard" /\ st.user # NoUser
    THEN [st EXCEPT !.tracker.pending = TRUE, !.hist.refreshes = @ + 1,
                    !.hist.refreshed = st.prcb]
    ELSE [st EXCEPT !.hist.refreshes = @ + 1, !.hist.refreshed = st.prcb]

(***************************************************************************)
(* reminderService.ts: response-window timers                              *)
(***************************************************************************)
\* the same, the key's timer left as it is
clearAutoMarkTimeoutKeepsTimer(st, userId, medicationId, reminderTime) == st

clearAutoMarkTimeout(st, userId, medicationId, reminderTime) ==
  LET key == getReminderKey(userId, medicationId, reminderTime)
      timer == MapGet(st.amt, key)
  IN IF timer # 0
       THEN [st EXCEPT !.timers = clearTimeout(@, timer), !.amt = MapDelete(@, key)]
       ELSE st

\* the same, a pending timer of the key left to run
scheduleAutoMarkNotTakenKeepsOld(st, userId, medication) ==
  LET key == getReminderKey(userId, medication.id, medication.reminder_time)
      timer == Timer(FreshId(st), "auto",
                     now + (AUTO_NOT_TAKEN_TIMEOUT_MS \div MS_PER_SECOND),
                     userId, medication.id, medication.reminder_time, today)
  IN [st EXCEPT !.timers = @ \cup {timer},
                !.amt = MapSet(@, key, FreshId(st))]

scheduleAutoMarkNotTaken(st, userId, medication) ==
  LET key == getReminderKey(userId, medication.id, medication.reminder_time)
      existingTimer == MapGet(st.amt, key)
      cleared == IF existingTimer # 0 THEN clearTimeout(st.timers, existingTimer) ELSE st.timers
      timer == Timer(FreshId(st), "auto",
                     now + (AUTO_NOT_TAKEN_TIMEOUT_MS \div MS_PER_SECOND),
                     userId, medication.id, medication.reminder_time, today)
  IN [st EXCEPT !.timers = cleared \cup {timer},
                !.amt = MapSet(@, key, FreshId(st))]

(***************************************************************************)
(* reminderService.ts: due-reminder resolver                               *)
(***************************************************************************)
\* .from('medication_schedules') ... .eq('active', true).eq('reminder_time', currentTime)
SelectSchedules(currentTime) ==
  {s \in medication_schedules : s.active /\ s.reminder_time = currentTime}

\* the same query without .eq('user_id', userId)
SelectMedicationIdsAnyUser(userId) ==
  {m \in DOMAIN medications : medications[m].active}

\* .from('medications').select('id, user_id').eq('user_id', userId).eq('active', true)
SelectMedicationIds(userId) ==
  {m \in DOMAIN medications : medications[m].user_id = userId /\ medications[m].active}

RECURSIVE SeqById(_)
SeqById(S) ==
  IF S = {} THEN <<>>
  ELSE LET s == CHOOSE x \in S : \A y \in S : x.id <= y.id
       IN <<s>> \o SeqById(S \ {s})

\* the same without the filter on userMedicationIds
DueRemindersUnfiltered(schedules, userMedicationIds) ==
  LET kept == SeqById(schedules)
  IN [i \in 1..Len(kept) |->
        [id |-> kept[i].medication_id, reminder_time |-> kept[i].reminder_time]]

\* schedules.filter(...).map(...): one entry per schedule, in the order fetched
DueReminders(schedules, userMedicationIds) ==
  LET kept == SeqById({s \in schedules : s.medication_id \in userMedicationIds})
  IN [i \in 1..Len(kept) |->
        [id |-> kept[i].medication_id, reminder_time |-> kept[i].reminder_time]]

\* autoMarkTimeouts holds a handle for the key and that timer is pending
TimerPending(st, userId, medicationId, reminderTime) ==
  MapGet(st.amt, getReminderKey(userId, medicationId, reminderTime)) \in TimerIds(st.timers)

(***************************************************************************)
(* reminderService.ts: dispatcher (the body of the for loop)               *)
(***************************************************************************)
\* the same without the test of Notification.permission
showNotificationUnchecked(st, medication) ==
  [st EXCEPT
     !.timers = @ \cup {Timer(FreshId(st), "close",
                              now + (NOTIFICATION_AUTO_CLOSE_MS \div MS_PER_SECOND),
                              NoUser, medication.id, medication.reminder_time, today)}]

\* showNotification(medication): nothing unless permission is granted; else
\* the notification is shown and its auto-close timer armed
showNotification(st, medication) ==
  IF st.perm # "granted" THEN st
  ELSE [st EXCEPT
          !.timers = @ \cup {Timer(FreshId(st), "close",
                                   now + (NOTIFICATION_AUTO_CLOSE_MS \div MS_PER_SECOND),
                                   NoUser, medication.id, medication.reminder_time, today)}]

\* reminderCallback(reminder) or showNotification(reminder).  The callback is
\* the App's handler ("app": setActiveReminder) or a handler of another client
\* of the service that throws ("throws"); the exception leaves the for loop
\* and is logged by the catch of checkAndNotifyReminders.
Surface(st, userId, reminder) ==
  LET sdt == getScheduledDateTime(today, reminder.reminder_time)
      e == [NoEvent EXCEPT !.type = "dispatch", !.user = userId,
                           !.med = reminder.id, !.sdt = sdt, !.occ = sdt,
                           !.flag = st.hist.started,
                           !.armed = TimerPending(st, userId, reminder.id,
                                                  reminder.reminder_time),
                           !.refreshes = st.hist.refreshes]
  IN IF st.cb = "null"
       THEN Emit(showNotification(st, reminder),
                 [e EXCEPT !.src = "notification",
                           !.status = IF st.perm = "granted" THEN "shown" ELSE "silent"])
     ELSE IF st.cb = "throws"
       THEN Emit([st EXCEPT !.hist.caught = @ + 1],
                 [e EXCEPT !.src = "callback", !.status = "threw"])
     ELSE Emit(setActiveReminder(st, reminder),
               [e EXCEPT !.src = "callback", !.status = "modal"])

AlreadyNotified(st, reminderId) == reminderId \in st.lnr

\* an exception left the handler that took st to s
Threw(st, s) == s.hist.caught > st.hist.caught

\* the same loop body with the callback or notification first
DispatchOneSurfaceFirst(st, userId, reminder) ==
  LET reminderId == <<reminder.id, reminder.reminder_time>>
  IN IF AlreadyNotified(st, reminderId) THEN st
     ELSE LET s1 == [st EXCEPT !.lnr = @ \cup {reminderId}]
              s2 == Surface(s1, userId, reminder)
          IN IF Threw(s1, s2) THEN s2
             ELSE LET s3 == InvokePageRefresh(scheduleAutoMarkNotTaken(s2, userId, reminder))
                  IN [s3 EXCEPT
                        !.timers = @ \cup {Timer(FreshId(s3), "dedup",
                                                 now + (DEDUP_CLEANUP_MS \div MS_PER_SECOND),
                                                 NoUser, reminder.id, reminder.reminder_time,
                                                 today)}]

DispatchOne(st, userId, reminder) ==
  LET reminderId == <<reminder.id, reminder.reminder_time>>
  IN IF AlreadyNotified(st, reminderId) THEN st
     ELSE LET s1 == [st EXCEPT !.lnr = @ \cup {reminderId}]
              s2 == scheduleAutoMarkNotTaken(s1, userId, reminder)
              s3 == InvokePageRefresh(s2)
              s4 == Surface(s3, userId, reminder)
          IN IF Threw(s3, s4) THEN s4
             ELSE [s4 EXCEPT
                     !.timers = @ \cup {Timer(FreshId(s4), "dedup",
                                              now + (DEDUP_CLEANUP_MS \div MS_PER_SECOND),
                                              NoUser, reminder.id, reminder.reminder_time, today)}]

\* for (const reminder of dueReminders) { ... } inside the try
RECURSIVE DispatchAll(_, _, _)
DispatchAll(st, userId, dueReminders) ==
  IF dueReminders = <<>> THEN st
  ELSE LET s == DispatchOne(st, userId, Head(dueReminders))
       IN IF Threw(st, s) THEN s
          ELSE DispatchAll(s, userId, Tail(dueReminders))

(***************************************************************************)
(* Calls in flight.  An async function suspended at an await is a slot     *)
(* with a pc; the lowest free slot is taken.                               *)
(***************************************************************************)
IdleEval == [pc |-> "idle", user |-> NoUser, time |-> NoTime, schedules |-> {}]

IdleCall ==
  [pc |-> "idle", src |-> "none", user |-> NoUser, med |-> NoMed, time |-> NoTime,
   sdt |-> NoSdt, occ |-> NoSdt, status |-> "none", skip |-> FALSE, existing |-> 0,
   prev |-> "none", taken_at |-> <<>>]

HasFree(slots) == \E i \in DOMAIN slots : slots[i].pc = "idle"
FreeSlot(slots) ==
  CHOOSE i \in DOMAIN slots :
    slots[i].pc = "idle" /\ \A j \in DOMAIN slots : slots[j].pc = "idle" => i <= j

\* checkAndNotifyReminders(userId) up to its first await: fetchDueReminders
\* reads the clock and sends the schedules query
checkAndNotifyReminders(st, userId) ==
  [st EXCEPT
     !.evals[FreeSlot(st.evals)] =
        [pc |-> "schedules", user |-> userId, time |-> getCurrentTimeString(now),
         schedules |-> {}],
     !.hist.evalsRun = @ + 1]

\* meds: the medications with enough dates still to be handled, the first
\* being handled; members: the contacts with an email still to be alerted
IdleSweep ==
  [pc |-> "idle", user |-> NoUser, since |-> NoSdt, meds |-> <<>>, members |-> <<>>]

\* threeDaysAgo: setDate(today.getDate() - 3), the time of day kept
threeDaysAgo == <<today - ESCALATION_WINDOW_DAYS, getCurrentTimeString(now)>>

\* checkMissedMedications(userId) up to its first await: the query for the
\* user's missed and not_taken_auto logs since threeDaysAgo is sent.  A sweep
\* started over a table of fewer than three rows cannot find three dates and
\* ends after that query without any effect; it is not kept in flight, and
\* neither is a second sweep started while one is in flight.
checkMissedMedications(st, userId) ==
  IF Cardinality(st.logs) < MISSED_DAYS_THRESHOLD \/ st.sweep.pc # "idle"
    THEN [st EXCEPT !.hist.sweeps = @ + 1]
    ELSE [st EXCEPT !.hist.sweeps = @ + 1,
                    !.sweep = [IdleSweep EXCEPT !.pc = "logs", !.user = userId,
                                                !.since = threeDaysAgo]]

\* recordAdherenceStatus(...) up to its first await: the lookup is sent
recordAdherenceStatus(st, src, userId, medicationId, reminderTime, status, skipIfCompleted, occ) ==
  [st EXCEPT
     !.calls[FreeSlot(st.calls)] =
        [IdleCall EXCEPT !.pc = "read", !.src = src, !.user = userId,
                         !.med = medicationId, !.time = reminderTime,
                         !.sdt = getScheduledDateTime(today, reminderTime),
                         !.occ = occ, !.status = status, !.skip = skipIfCompleted]]

(***************************************************************************)
(* reminderService.ts: lifecycle                                           *)
(***************************************************************************)
Max(a, b) == IF a >= b THEN a ELSE b

\* msUntilNextMinute of checkReminders(), the clock being at a whole second
msUntilNextMinute(t) ==
  LET secondsUntilNextMinute == SECONDS_PER_MINUTE - getSeconds(t)
  IN (secondsUntilNextMinute % SECONDS_PER_MINUTE) * MS_PER_SECOND

AlreadyRunning(st) == st.rci # 0

startReminderService(st, userId) ==
  IF AlreadyRunning(st) THEN st
  ELSE LET s1 == checkAndNotifyReminders(st, userId)
           s2 == checkMissedMedications(s1, userId)
           delay == Max(0, msUntilNextMinute(now)) \div MS_PER_SECOND
       IN [s2 EXCEPT
             !.timers = @ \cup {Timer(FreshId(s2), "align", now + delay,
                                      userId, NoMed, NoTime, today)},
             !.nct = FreshId(s2),
             !.hist.starts = @ + 1]

\* autoMarkTimeouts.forEach((timeout) => clearTimeout(timeout))
ClearAutoMarkTimers(st) == {t \in st.timers : \A e \in st.amt : e[2] # t.id}

stopReminderService(st) ==
  LET s1 == IF st.rci # 0
              THEN [st EXCEPT !.timers = clearTimeout(@, st.rci), !.rci = 0]
              ELSE st
      s2 == IF s1.nct # 0
              THEN [s1 EXCEPT !.timers = clearTimeout(@, s1.nct), !.nct = 0]
              ELSE s1
  IN [s2 EXCEPT !.lnr = {},
                !.timers = ClearAutoMarkTimers(s2),
                !.amt = {},
                !.hist.epoch = @ + 1,
                !.hist.started = FALSE]

isReminderServiceRunning == reminderCheckInterval # 0

\* a slot that keeps the handler it got first
setReminderCallbackOnce(st, callback) ==
  IF st.cb = "null" THEN [st EXCEPT !.cb = callback] ELSE st

setReminderCallback(st, callback) == [st EXCEPT !.cb = callback]
setPageRefreshCallback(st, callback) == [st EXCEPT !.prcb = callback]

(***************************************************************************)
(* Timer callbacks                                                         *)
(***************************************************************************)
\* the callback of a notification's auto-close timer: notification.close()
AutoCloseFired(st, t) == [st EXCEPT !.timers = clearTimeout(@, t.id)]

\* the callback of nextCheckTimeout
AlignFired(st, t) ==
  LET s1 == [st EXCEPT !.timers = @ \ {t}]
      s2 == checkAndNotifyReminders(s1, t.user)
  IN [s2 EXCEPT
        !.timers = @ \cup {Timer(FreshId(s2), "interval",
                                 now + (CHECK_INTERVAL_MS \div MS_PER_SECOND),
                                 t.user, NoMed, NoTime, today)},
        !.rci = FreshId(s2)]

\* an interval callback that sweeps as well
IntervalFiredWithSweep(st, t) ==
  LET s1 == [st EXCEPT !.timers =
               (@ \ {t}) \cup {[t EXCEPT !.due = @ + (CHECK_INTERVAL_MS \div MS_PER_SECOND)]}]
  IN checkMissedMedications(checkAndNotifyReminders(s1, t.user), t.user)

\* the callback of reminderCheckInterval
IntervalFired(st, t) ==
  LET s1 == [st EXCEPT !.timers =
               (@ \ {t}) \cup {[t EXCEPT !.due = @ + (CHECK_INTERVAL_MS \div MS_PER_SECOND)]}]
  IN checkAndNotifyReminders(s1, t.user)

Terminal(status) == status \in {"taken", "missed"}

HasTerminal(logs, u, m, sdt) ==
  \E r \in logs : /\ r.medication_id = m /\ r.user_id = u /\ r.scheduled_time = sdt
                  /\ Terminal(r.status)

\* a timer callback that leaves its key in the map
AutoFiredKeepsKey(st, t) ==
  LET occ == getScheduledDateTime(t.date, t.time)
      s1 == [st EXCEPT !.timers = @ \ {t}]
      s2 == Emit(s1, [NoEvent EXCEPT !.type = "fire", !.src = "timer", !.user = t.user,
                                     !.med = t.med, !.occ = occ,
                                     !.sdt = getScheduledDateTime(today, t.time),
                                     !.flag = HasTerminal(st.logs, t.user, t.med, occ)])
  IN recordAdherenceStatus(s2, "timer", t.user, t.med, t.time, "not_taken_auto", TRUE, occ)

\* the callback of the auto-mark timer
AutoFired(st, t) ==
  LET key == getReminderKey(t.user, t.med, t.time)
      occ == getScheduledDateTime(t.date, t.time)
      s1 == [st EXCEPT !.timers = @ \ {t}, !.amt = MapDelete(@, key)]
      s2 == Emit(s1, [NoEvent EXCEPT !.type = "fire", !.src = "timer", !.user = t.user,
                                     !.med = t.med, !.occ = occ,
                                     !.sdt = getScheduledDateTime(today, t.time),
                                     !.flag = HasTerminal(st.logs, t.user, t.med, occ)])
  IN recordAdherenceStatus(s2, "timer", t.user, t.med, t.time, "not_taken_auto", TRUE, occ)

\* the callback of the dispatcher's 61 s cleanup timer
DedupFired(st, t) ==
  [st EXCEPT !.timers = @ \ {t}, !.lnr = @ \ {<<t.med, t.time>>}]

\* ReminderModal.handleAutoMarkAsMissed up to its await
handleAutoMarkAsMissed(st) ==
  IF st.user = NoUser THEN st
  ELSE recordAdherenceStatus([st EXCEPT !.modal.isLoading = TRUE], "modalAuto",
                             st.user, st.active.id, st.active.reminder_time,
                             "not_taken_auto", TRUE,
                             getScheduledDateTime(today, st.active.reminder_time))

\* the countdown reaches zero: setIsAutoClosing(true), then the effect on
\* [isAutoClosing, isLoading]
CountdownFired(st, t) ==
  LET s1 == [st EXCEPT !.timers = @ \ {t}, !.modal.isAutoClosing = TRUE]
  IN IF ~s1.modal.isLoading THEN handleAutoMarkAsMissed(s1) ELSE s1

(***************************************************************************)
(* reminderService.ts: recordAdherenceStatus after its awaits              *)
(***************************************************************************)
Row(id, m, u, sdt, status, taken_at) ==
  [id |-> id, medication_id |-> m, user_id |-> u, scheduled_time |-> sdt,
   status |-> status, taken_at |-> taken_at]

\* .eq('medication_id', ..).eq('user_id', ..).eq('scheduled_time', ..)
SelectLogs(logs, m, u, sdt) ==
  {r \in logs : r.medication_id = m /\ r.user_id = u /\ r.scheduled_time = sdt}

\* an update that sends the status alone
UpdateLogStatusOnly(logs, id, status, taken_at) ==
  {IF r.id = id THEN [r EXCEPT !.status = status] ELSE r : r \in logs}

\* .update(payload).eq('id', id)
UpdateLog(logs, id, status, taken_at) ==
  {IF r.id = id THEN [r EXCEPT !.status = status, !.taken_at = taken_at] ELSE r : r \in logs}

\* .insert({...}); the id is generated by the table
InsertLog(logs, m, u, sdt, status, taken_at) ==
  logs \cup {Row(Cardinality(logs) + 1, m, u, sdt, status, taken_at)}

StatusOf(logs, id) ==
  IF \E r \in logs : r.id = id THEN (CHOOSE r \in logs : r.id = id).status ELSE "none"

\* the call of slot i returns; the modal's handlers continue after their await
\* with onMissed()/onTaken(), onClose() and setIsLoading(false)
Return(st, i, wrote) ==
  LET c == st.calls[i]
      s1 == Emit([st EXCEPT !.calls[i] = IdleCall],
                 [NoEvent EXCEPT !.type = "done", !.src = c.src, !.user = c.user,
                                 !.med = c.med, !.sdt = c.sdt, !.occ = c.occ,
                                 !.status = c.status, !.flag = wrote])
  IN IF c.src \in {"modalAuto", "modalTaken", "modalMissed"}
       THEN setActiveReminder(s1, NoReminder)
       ELSE s1

\* skipIfCompleted && existingLog && (status is taken or missed)
SkipCompleted(c, existingStatus) == c.skip /\ Terminal(existingStatus)

\* the lookup of slot i returned without error
ReadAnswered(st, i) ==
  LET c == st.calls[i]
      rows == SelectLogs(st.logs, c.med, c.user, c.sdt)
      existingLog == IF rows = {} THEN 0 ELSE (CHOOSE r \in rows : TRUE).id
      existingStatus == StatusOf(st.logs, existingLog)
  IN IF Cardinality(rows) > 1 THEN Return(st, i, FALSE)
     ELSE IF SkipCompleted(c, existingStatus)
       THEN Return(clearAutoMarkTimeout(st, c.user, c.med, c.time), i, FALSE)
     ELSE [st EXCEPT !.calls[i].pc = "write",
                     !.calls[i].existing = existingLog,
                     !.calls[i].prev = existingStatus,
                     !.calls[i].taken_at = IF c.status = "taken" THEN toISOString ELSE <<>>]

\* a lookup whose error path still calls the page-refresh callback
ReadResolvedRefreshingOnError(st, i, ok) ==
  IF ~ok THEN Return(InvokePageRefresh([st EXCEPT !.hist.failures = @ + 1]), i, FALSE)
         ELSE ReadAnswered(st, i)

\* the lookup of slot i resolves; ok = FALSE is existingError of the request,
\* and maybeSingle() gives an error for more than one row as well
ReadResolved(st, i, ok) ==
  IF ~ok THEN Return([st EXCEPT !.hist.failures = @ + 1], i, FALSE)
         ELSE ReadAnswered(st, i)

\* the update or insert of slot i succeeded: the rest of recordAdherenceStatus
WriteApplied(st, i) ==
  LET c == st.calls[i]
      s1 == [st EXCEPT !.logs =
               IF c.existing # 0
                 THEN UpdateLog(@, c.existing, c.status, c.taken_at)
                 ELSE InsertLog(@, c.med, c.user, c.sdt, c.status, c.taken_at)]
      s2 == Emit(s1, [NoEvent EXCEPT !.type = "write", !.src = c.src, !.user = c.user,
                                     !.med = c.med, !.sdt = c.sdt, !.occ = c.occ,
                                     !.status = c.status,
                                     !.prev = StatusOf(st.logs, c.existing)])
      s3 == IF c.status # "not_taken_auto"
              THEN clearAutoMarkTimeout(s2, c.user, c.med, c.time)
              ELSE s2
  IN Return(InvokePageRefresh(s3), i, TRUE)

\* a write whose error is reported after the table took the row
WriteResolvedIgnoringError(st, i, ok) ==
  IF ~ok THEN WriteApplied([st EXCEPT !.hist.failures = @ + 1,
                                      !.hist.writeFailures = @ + 1], i)
         ELSE WriteApplied(st, i)

\* the update or insert of slot i resolves
WriteResolved(st, i, ok) ==
  IF ~ok THEN Return([st EXCEPT !.hist.failures = @ + 1,
                                !.hist.writeFailures = @ + 1], i, FALSE)
         ELSE WriteApplied(st, i)

(***************************************************************************)
(* ReminderModal: the user's handlers up to their await                    *)
(***************************************************************************)
handleMark(st, src, status) ==
  LET m == st.active
      s1 == [st EXCEPT !.modal.isLoading = TRUE, !.hist.userOps = @ + 1]
      s2 == Emit(s1, [NoEvent EXCEPT !.type = "mark", !.src = src, !.user = st.user,
                                     !.med = m.id, !.status = status,
                                     !.sdt = getScheduledDateTime(today, m.reminder_time),
                                     !.occ = getScheduledDateTime(today, m.reminder_time),
                                     !.flag = TimerPending(st, st.user, m.id, m.reminder_time)])
      s3 == clearAutoMarkTimeout(s2, st.user, m.id, m.reminder_time)
  IN recordAdherenceStatus(s3, src, st.user, m.id, m.reminder_time, status, FALSE,
                           getScheduledDateTime(today, m.reminder_time))

handleMarkAsTaken(st) == handleMark(st, "modalTaken", "taken")
handleMarkAsMissed(st) == handleMark(st, "modalMissed", "missed")

\* the X button: onClose
handleClose(st) == setActiveReminder([st EXCEPT !.hist.userOps = @ + 1], NoReminder)

(***************************************************************************)
(* AdherenceTracker                                                        *)
(***************************************************************************)
NoTracker == [rows |-> {}, pending |-> FALSE]

\* loadTodayReminders: each active schedule of the user's active medications
\* with the log found for today (maybeSingle: none unless exactly one row)
loadTodayReminders(st) ==
  IF st.user = NoUser THEN [st EXCEPT !.tracker.pending = FALSE]
  ELSE
    LET meds == SelectMedicationIds(st.user)
        scheds == {s \in medication_schedules : s.medication_id \in meds /\ s.active}
        logOf(s) ==
          LET rows == SelectLogs(st.logs, s.medication_id, st.user,
                                 getScheduledDateTime(today, s.reminder_time))
          IN IF Cardinality(rows) = 1 THEN (CHOOSE r \in rows : TRUE).id ELSE 0
    IN [st EXCEPT !.tracker =
          [rows |-> {[medication |-> s.medication_id, time |-> s.reminder_time,
                      log |-> logOf(s), status |-> StatusOf(st.logs, logOf(s))] :
                       s \in scheds},
           pending |-> FALSE]]

\* reminder.time < new Date().toTimeString().split(' ')[0].slice(0, 5)
isPast(time) ==
  LET current == getCurrentTimeString(now)
  IN time[1] < current[1] \/ (time[1] = current[1] /\ time[2] < current[2])

\* the "Mark as taken" button, or the "Actually, I took it" / "Mark as taken
\* (update)" button, is rendered for the reminder
CanMarkTaken(reminder) == reminder.status # "taken"

\* the "Missed this dose" button is rendered for the reminder
CanMarkMissed(reminder) ==
  /\ reminder.status \notin {"taken", "missed", "not_taken_auto"}
  /\ isPast(reminder.time)

\* markAsTaken / markAsMissed: update by the id loaded, or insert; then reload
trackerMark(st, reminder, src, status, ok) ==
  LET sdt == getScheduledDateTime(today, reminder.time)
      taken_at == IF status = "taken" THEN toISOString ELSE <<>>
      s1 == Emit([st EXCEPT !.hist.userOps = @ + 1],
                 [NoEvent EXCEPT !.type = "mark", !.src = src, !.user = st.user,
                                 !.med = reminder.medication, !.status = status,
                                 !.sdt = sdt, !.occ = sdt,
                                 !.flag = TimerPending(st, st.user, reminder.medication,
                                                       reminder.time)])
      s2 == IF ~ok THEN [s1 EXCEPT !.hist.failures = @ + 1]
            ELSE Emit([s1 EXCEPT !.logs =
                         IF reminder.log # 0
                           THEN UpdateLog(@, reminder.log, status, taken_at)
                           ELSE InsertLog(@, reminder.medication, st.user, sdt, status, taken_at)],
                      [NoEvent EXCEPT !.type = "write", !.src = src, !.user = st.user,
                                      !.med = reminder.medication, !.sdt = sdt, !.occ = sdt,
                                      !.status = status,
                                      !.prev = StatusOf(st.logs, reminder.log)])
  IN [s2 EXCEPT !.tracker.pending = TRUE]

markAsTaken(st, reminder, ok) == trackerMark(st, reminder, "trackerTaken", "taken", ok)
markAsMissed(st, reminder, ok) == trackerMark(st, reminder, "trackerMissed", "missed", ok)

(***************************************************************************)
(* App.tsx: the effect on [user, loading]                                  *)
(***************************************************************************)
\* the cleanup the previous run of the effect returned
EffectCleanup(st) == setActiveReminder(stopReminderService(st), NoReminder)

\* a user is signed in (or the user object changed): cleanup, then
\* setReminderCallback and startReminderService; the dashboard mounts
AppEffectUser(st, u) ==
  LET s1 == EffectCleanup(st)
      s2 == [s1 EXCEPT !.user = u, !.tracker.pending = TRUE]
      s3 == setPageRefreshCallback(s2, "dashboard")
      s4 == setReminderCallback(s3, "app")
  IN [startReminderService(s4, u) EXCEPT !.hist.started = TRUE]

\* the user signed out: cleanup, then stopReminderService and setActiveReminder(null)
AppEffectNoUser(st) ==
  LET s1 == EffectCleanup(st)
      s2 == [s1 EXCEPT !.user = NoUser, !.tracker = NoTracker]
  IN setActiveReminder(stopReminderService(s2), NoReminder)

(***************************************************************************)
(* reminderService.ts: checkAndNotifyReminders after its awaits            *)
(***************************************************************************)
Fetched(userId, time, ok, result) ==
  <<[user |-> userId, time |-> time, ok |-> ok, result |-> result]>>

\* the schedules query of slot i resolves
SchedulesResolved(st, i, ok) ==
  LET e == st.evals[i]
      schedules == SelectSchedules(e.time)
  IN IF ~ok
       THEN [st EXCEPT !.evals[i] = IdleEval, !.hist.failures = @ + 1,
                       !.hist.fetched = Fetched(e.user, e.time, FALSE, <<>>)]
     ELSE IF schedules = {}
       THEN [st EXCEPT !.evals[i] = IdleEval,
                       !.hist.fetched = Fetched(e.user, e.time, TRUE, <<>>)]
     ELSE [st EXCEPT !.evals[i].pc = "medications", !.evals[i].schedules = schedules]

\* the medications query of slot i resolves; fetchDueReminders returns and
\* the for loop runs
MedicationsResolved(st, i, ok) ==
  LET e == st.evals[i]
      dueReminders == DueReminders(e.schedules, SelectMedicationIds(e.user))
  IN IF ~ok
       THEN [st EXCEPT !.evals[i] = IdleEval, !.hist.failures = @ + 1,
                       !.hist.fetched = Fetched(e.user, e.time, FALSE, <<>>)]
     ELSE DispatchAll([st EXCEPT !.evals[i] = IdleEval,
                                 !.hist.fetched = Fetched(e.user, e.time, TRUE, dueReminders)],
                      e.user, dueReminders)

(***************************************************************************)
(* reminderService.ts: checkMissedMedications after its awaits.  Dates are *)
(* whole days and the local time zone is UTC: a timestamp is <<date, time>>*)
(* and toDateString() gives its date.                                      *)
(***************************************************************************)
NoEmail == "null"
MedOrder == <<"m1", "m2">>

\* a >= b for timestamps <<date, <<hours, minutes>>>>
TimestampGte(a, b) ==
  \/ a[1] > b[1]
  \/ a[1] = b[1] /\ (a[2][1] > b[2][1] \/ (a[2][1] = b[2][1] /\ a[2][2] >= b[2][2]))

\* the same query without .in('status', [...])
SelectLogsOfAnyStatus(logs, userId, since) ==
  {r \in logs : r.user_id = userId /\ TimestampGte(r.scheduled_time, since)}

\* .eq('user_id', userId).gte('scheduled_time', threeDaysAgo.toISOString())
\*   .in('status', ['missed', 'not_taken_auto'])
SelectMissedLogs(logs, userId, since) ==
  {r \in logs : /\ r.user_id = userId
                /\ TimestampGte(r.scheduled_time, since)
                /\ r.status \in {"missed", "not_taken_auto"}}

\* new Date(log.scheduled_time).toDateString()
toDateString(scheduled_time) == scheduled_time[1]

\* missedByMed: medication -> set of dates
missedByMed(logs) ==
  [m \in {r.medication_id : r \in logs} |->
     {toDateString(r.scheduled_time) : r \in {x \in logs : x.medication_id = m}}]

\* a loop that alerts from two dates on
MedicationsToAlertFromTwoDates(logs) ==
  SelectSeq(MedOrder,
            LAMBDA m : /\ m \in DOMAIN missedByMed(logs)
                       /\ Cardinality(missedByMed(logs)[m]) >= MISSED_DAYS_THRESHOLD - 1)

\* the entries of missedByMed with dates.size >= 3, in the order iterated
MedicationsToAlert(logs) ==
  SelectSeq(MedOrder,
            LAMBDA m : /\ m \in DOMAIN missedByMed(logs)
                       /\ Cardinality(missedByMed(logs)[m]) >= MISSED_DAYS_THRESHOLD)

SweepReturns(st) ==
  [st EXCEPT !.sweep = IdleSweep, !.hist.swept = <<st.sweep.since>>]

\* the for loop over missedByMed goes on to its next entry
NextMedication(st) ==
  IF Len(st.sweep.meds) <= 1 THEN SweepReturns(st)
  ELSE [st EXCEPT !.sweep.meds = Tail(@), !.sweep.members = <<>>,
                  !.sweep.pc = "medication"]

\* new Notification('Family Alert Triggered', ...) when permission is granted
FamilyAlertNotice(st) ==
  IF st.perm = "granted" THEN [st EXCEPT !.hist.notices = @ + 1] ELSE st

\* supabase.functions.invoke('send-reminders', {mode: 'send-alert', to: member.email})
SendAlert(st) ==
  [st EXCEPT !.alerts = Append(@, [to |-> Head(st.sweep.members).email,
                                   member |-> Head(st.sweep.members).id,
                                   medication |-> Head(st.sweep.meds)]),
             !.sweep.pc = "alert"]

\* the logs query resolves; without data the sweep returns
SweepLogsResolved(st, ok) ==
  LET logs == SelectMissedLogs(st.logs, st.sweep.user, st.sweep.since)
      meds == MedicationsToAlert(logs)
  IN IF ~ok THEN SweepReturns([st EXCEPT !.hist.failures = @ + 1])
     ELSE IF logs = {} \/ meds = <<>> THEN SweepReturns(st)
     ELSE [st EXCEPT !.sweep.meds = meds, !.sweep.pc = "medication"]

\* the medication's name is fetched (undefined when that fails), then the
\* family query is sent
SweepMedicationResolved(st, ok) ==
  [st EXCEPT !.sweep.pc = "family", !.hist.failures = IF ok THEN @ ELSE @ + 1]

\* the family query resolves: the first contact with an email is alerted
SweepFamilyResolved(st, ok) ==
  LET family == SeqById({f \in family_members : f.user_id = st.sweep.user})
      members == SelectSeq(family, LAMBDA f : f.email # NoEmail)
  IN IF ~ok THEN NextMedication([st EXCEPT !.hist.failures = @ + 1])
     ELSE IF family = <<>> THEN NextMedication(st)
     ELSE IF members = <<>> THEN NextMedication(FamilyAlertNotice(st))
     ELSE SendAlert([st EXCEPT !.sweep.members = members])

\* the invoke resolves (its result is not looked at): the next contact with an
\* email is alerted, or the medication is done
SweepAlertResolved(st, ok) ==
  LET s1 == [st EXCEPT !.sweep.members = Tail(@),
                       !.hist.failures = IF ok THEN @ ELSE @ + 1]
  IN IF s1.sweep.members # <<>> THEN SendAlert(s1)
     ELSE NextMedication(FamilyAlertNotice(s1))

(***************************************************************************)
(* Initial state                                                           *)
(***************************************************************************)
SessionUsers == {"u1"}
DueTime == <<0, 1>>

\* the module's variables and the page, as loaded
InitService ==
  /\ alerts = <<>>
  /\ sweep = IdleSweep
  /\ timers = {}
  /\ reminderCheckInterval = 0
  /\ nextCheckTimeout = 0
  /\ lastNotifiedReminders = {}
  /\ reminderCallback = "null"
  /\ pageRefreshCallback = "null"
  /\ autoMarkTimeouts = {}
  /\ evals = [i \in 1..MaxEvals |-> IdleEval]
  /\ calls = [i \in 1..MaxCalls |-> IdleCall]
  /\ user = NoUser
  /\ activeReminder = NoReminder
  /\ modal = NoModal
  /\ todayReminders = NoTracker
  /\ hist = HistInit

\* a browser that was never asked for the notification permission
InitModule ==
  /\ InitService
  /\ permission = "default"

InitProgram ==
  /\ adherence_logs = {}
  /\ family_members = {}
  /\ InitModule

Init ==
  /\ now = 0
  /\ today = 0
  /\ medications = [m \in Meds |-> [user_id |-> IF m = "m1" THEN "u1" ELSE "u2",
                                    active |-> TRUE]]
  /\ medication_schedules =
       {[id |-> 1, medication_id |-> "m1", reminder_time |-> DueTime, active |-> TRUE],
        [id |-> 2, medication_id |-> "m2", reminder_time |-> DueTime, active |-> TRUE]}
  /\ InitProgram

(***************************************************************************)
(* Actions                                                                 *)
(***************************************************************************)
envVars == <<now, today, medications, medication_schedules, family_members, permission>>

Do(st, name) == Commit(Op(st, name)) /\ UNCHANGED envVars

\* a storage operation succeeds, or fails while the failure budget lasts
Outcomes == IF hist.failures < MaxFailures THEN {TRUE, FALSE} ELSE {TRUE}

SignIn(u) ==
  /\ hist.starts < MaxStarts
  /\ HasFree(evals)
  /\ Do(AppEffectUser(Mem, u), "other")

\* the first render with a signed-in user
FirstSignIn == hist.starts = 0 /\ \E u \in SessionUsers : SignIn(u)

SignOut ==
  /\ user # NoUser
  /\ Do(AppEffectNoUser(Mem), "other")

StartCall ==
  /\ user # NoUser
  /\ hist.starts < MaxStarts
  /\ HasFree(evals)
  /\ Do([startReminderService(Mem, user) EXCEPT !.hist.started = TRUE], "start")

StopCall ==
  /\ hist.stopCalls < MaxStops
  /\ Do([stopReminderService(Mem) EXCEPT !.hist.stopCalls = @ + 1],
        IF hist.lastOp \in {"stop", "stop2"} THEN "stop2" ELSE "stop")

\* Timers fire in the order of their due time, then of their creation.  Of two
\* timers due at the same instant the one created first is: the auto-mark timer
\* before the countdown of the modal its dispatch opened, both before the
\* cleanup timer and before the tick armed one minute earlier.
CreationRank(kind) ==
  CASE kind = "auto" -> 1
    [] kind = "countdown" -> 2
    [] kind = "dedup" -> 3
    [] kind = "align" -> 4
    [] OTHER -> 5

CanFire(t) ==
  /\ t.due <= now
  /\ \A o \in timers :
       o.due > t.due \/ (o.due = t.due /\ CreationRank(o.kind) >= CreationRank(t.kind))

AlignTimerFires ==
  \E t \in timers :
    /\ t.kind = "align" /\ CanFire(t) /\ HasFree(evals)
    /\ Do(AlignFired(Mem, t), "other")

IntervalTimerFires ==
  \E t \in timers :
    /\ t.kind = "interval" /\ CanFire(t) /\ HasFree(evals)
    /\ Do(IntervalFired(Mem, t), "other")

AutoMarkTimerFires ==
  \E t \in timers :
    /\ t.kind = "auto" /\ CanFire(t) /\ HasFree(calls)
    /\ Do(AutoFired(Mem, t), "other")

DedupTimerFires ==
  \E t \in timers :
    /\ t.kind = "dedup" /\ CanFire(t)
    /\ Do(DedupFired(Mem, t), "other")

CountdownFires ==
  \E t \in timers :
    /\ t.kind = "countdown" /\ CanFire(t) /\ HasFree(calls)
    /\ Do(CountdownFired(Mem, t), "other")

EvalSchedules ==
  \E i \in 1..MaxEvals, ok \in Outcomes :
    /\ evals[i].pc = "schedules"
    /\ Do(SchedulesResolved(Mem, i, ok), "other")

EvalMedications ==
  \E i \in 1..MaxEvals, ok \in Outcomes :
    /\ evals[i].pc = "medications"
    /\ Do(MedicationsResolved(Mem, i, ok), "other")

CallRead ==
  \E i \in 1..MaxCalls, ok \in Outcomes :
    /\ calls[i].pc = "read"
    /\ Do(ReadResolved(Mem, i, ok), "other")

CallWrite ==
  \E i \in 1..MaxCalls, ok \in Outcomes :
    /\ calls[i].pc = "write"
    /\ (calls[i].existing = 0 /\ ok) => Cardinality(adherence_logs) < MaxLogs
    /\ Do(WriteResolved(Mem, i, ok), "other")

ButtonsEnabled == modal.mounted /\ ~modal.isLoading /\ ~modal.isAutoClosing

ModalTaken ==
  /\ ButtonsEnabled /\ hist.userOps < MaxUserOps /\ HasFree(calls)
  /\ Do(handleMarkAsTaken(Mem), "other")

ModalMissed ==
  /\ ButtonsEnabled /\ hist.userOps < MaxUserOps /\ HasFree(calls)
  /\ Do(handleMarkAsMissed(Mem), "other")

ModalClose ==
  /\ ButtonsEnabled /\ hist.userOps < MaxUserOps
  /\ Do(handleClose(Mem), "other")

TrackerLoad ==
  /\ todayReminders.pending
  /\ Do(loadTodayReminders(Mem), "other")

\* a click on a button the tracker renders, while fewer than `limit` user
\* operations were made
TrackerTakenWithin(limit) ==
  \E r \in todayReminders.rows, ok \in Outcomes :
    /\ user # NoUser /\ hist.userOps < limit
    /\ CanMarkTaken(r)
    /\ (r.log = 0 /\ ok) => Cardinality(adherence_logs) < MaxLogs
    /\ Do(markAsTaken(Mem, r, ok), "other")

TrackerMissedWithin(limit) ==
  \E r \in todayReminders.rows, ok \in Outcomes :
    /\ user # NoUser /\ hist.userOps < limit
    /\ CanMarkMissed(r)
    /\ (r.log = 0 /\ ok) => Cardinality(adherence_logs) < MaxLogs
    /\ Do(markAsMissed(Mem, r, ok), "other")

TrackerTaken == hist.userOps < MaxUserOps /\ TrackerTakenWithin(MaxUserOps)

TrackerMissed == hist.userOps < MaxUserOps /\ TrackerMissedWithin(MaxUserOps)

\* the clock moves to the next instant: a timer's due time, the next minute
\* boundary, or the next second at the start of a minute
NextInstants(sub) ==
  {t.due : t \in timers}
    \cup {(now \div SECONDS_PER_MINUTE + 1) * SECONDS_PER_MINUTE}
    \cup (IF getSeconds(now) < sub THEN {now + 1} ELSE {})

Tick(limit, sub) ==
  /\ \A t \in timers : t.due > now
  /\ \E n \in NextInstants(sub) :
       /\ n > now /\ n <= limit
       /\ \A t \in timers : t.due >= n
       /\ now' = n
  /\ UNCHANGED <<today, medications, medication_schedules, adherence_logs, timers,
                 family_members, alerts, sweep,
                 svcVars, cbVars, evals, calls, uiVars, permission, hist>>

NoCallInFlight == \A i \in 1..MaxCalls : calls[i].pc = "idle"
NoEvalInFlight == \A i \in 1..MaxEvals : evals[i].pc = "idle"

\* fetches may take any time
AdvanceLifecycle == NoCallInFlight /\ Tick(MaxNowLifecycle, SubSeconds)

\* every request resolves before the clock reaches the next instant
AdvanceAdherence == NoCallInFlight /\ NoEvalInFlight /\ Tick(MaxNow, 0)

\* the UTC date changes (at a minute boundary of the local clock)
UtcMidnight ==
  /\ today < MaxDate
  /\ getSeconds(now) = 0
  /\ today' = today + 1
  /\ UNCHANGED <<now, medications, medication_schedules, adherence_logs, timers,
                 family_members, alerts, sweep,
                 svcVars, cbVars, evals, calls, uiVars, permission, hist>>

\* The service's lifecycle and its dispatcher, with nobody at the UI
NextLifecycle ==
  \/ \E u \in SessionUsers : SignIn(u)
  \/ SignOut
  \/ StartCall
  \/ StopCall
  \/ AlignTimerFires
  \/ IntervalTimerFires
  \/ DedupTimerFires
  \/ EvalSchedules
  \/ EvalMedications
  \/ AdvanceLifecycle

SpecLifecycle == Init /\ [][NextLifecycle]_vars

\* One signed-in session with the user at the UI; every request resolves
\* before the clock moves on
NextAdherence ==
  \/ FirstSignIn
  \/ AlignTimerFires
  \/ IntervalTimerFires
  \/ AutoMarkTimerFires
  \/ DedupTimerFires
  \/ CountdownFires
  \/ EvalSchedules
  \/ EvalMedications
  \/ CallRead
  \/ CallWrite
  \/ ModalTaken
  \/ ModalMissed
  \/ ModalClose
  \/ TrackerLoad
  \/ TrackerTaken
  \/ TrackerMissed
  \/ AdvanceAdherence
  \/ UtcMidnight

SpecAdherence == Init /\ [][NextAdherence]_vars

\* The resolver over every content of the two tables
FetchTimes == {getCurrentTimeString(0), getCurrentTimeString(MaxNowFetch)}

ScheduleRow(id) ==
  {[id |-> id, medication_id |-> m, reminder_time |-> t, active |-> a] :
     m \in Meds, t \in FetchTimes, a \in BOOLEAN}

InitFetch ==
  /\ now = 0
  /\ today = 0
  /\ medications \in [Meds -> [user_id : Users, active : BOOLEAN]]
  /\ medication_schedules \in {{s1, s2} : s1 \in ScheduleRow(1), s2 \in ScheduleRow(2)}
  /\ InitProgram

\* the fetches of an evaluation may take any time
AdvanceFetch == NoCallInFlight /\ Tick(MaxNowFetch, 0)

NextFetch ==
  \/ FirstSignIn
  \/ AlignTimerFires
  \/ IntervalTimerFires
  \/ EvalSchedules
  \/ EvalMedications
  \/ AdvanceFetch

SpecFetch == InitFetch /\ [][NextFetch]_vars

\* The tracker alone: a user who marks a dose more than once
TrackerTakenAgain == hist.userOps < MaxMarks /\ TrackerTakenWithin(MaxMarks)

TrackerMissedAgain == hist.userOps < MaxMarks /\ TrackerMissedWithin(MaxMarks)

AdvanceMarks == NoCallInFlight /\ Tick(MaxNowMarks, 0)

NextMarks ==
  \/ FirstSignIn
  \/ EvalSchedules
  \/ TrackerLoad
  \/ TrackerTakenAgain
  \/ TrackerMissedAgain
  \/ AdvanceMarks
  \/ UtcMidnight

SpecMarks == Init /\ [][NextMarks]_vars

\* The service used through its exported functions by any client: callbacks
\* are registered or not, the browser's notification permission is answered
\* or not, and two reminders of the user are due in the same minute.
ClientCallbacks == {"app", "throws"}

InitCore ==
  /\ now = 0
  /\ today = 0
  /\ medications = [m \in Meds |-> [user_id |-> "u1", active |-> TRUE]]
  /\ medication_schedules =
       {[id |-> 1, medication_id |-> "m1", reminder_time |-> DueTime, active |-> TRUE],
        [id |-> 2, medication_id |-> "m2", reminder_time |-> DueTime, active |-> TRUE]}
  /\ InitProgram

CoreStart ==
  \E u \in SessionUsers :
    /\ hist.starts < MaxStarts
    /\ HasFree(evals)
    /\ Do([startReminderService(Mem, u) EXCEPT !.hist.started = TRUE], "start")

\* the one start of a session
ServiceStart == hist.starts = 0 /\ CoreStart

RegisterReminderCallback ==
  \E callback \in ClientCallbacks :
    /\ reminderCallback # callback
    /\ Do([setReminderCallback(Mem, callback) EXCEPT !.hist.handler = callback], "other")

RegisterPageRefresh ==
  /\ pageRefreshCallback = "null"
  /\ Do([setPageRefreshCallback(Mem, "dashboard") EXCEPT !.hist.refresher = "dashboard"],
        "other")

\* the user answers the browser's permission prompt
PermissionAnswered ==
  /\ permission = "default"
  /\ permission' \in {"granted", "denied"}
  /\ UNCHANGED <<now, today, medications, medication_schedules, adherence_logs, timers,
                 family_members, alerts, sweep,
                 svcVars, cbVars, evals, calls, uiVars, hist>>

AutoCloseTimerFires ==
  \E t \in timers :
    /\ t.kind = "close" /\ CanFire(t)
    /\ Do(AutoCloseFired(Mem, t), "other")

AdvanceCore == NoCallInFlight /\ Tick(MaxNowCore, 0)

NextCore ==
  \/ ServiceStart
  \/ RegisterReminderCallback
  \/ RegisterPageRefresh
  \/ PermissionAnswered
  \/ AlignTimerFires
  \/ IntervalTimerFires
  \/ DedupTimerFires
  \/ AutoCloseTimerFires
  \/ EvalSchedules
  \/ EvalMedications
  \/ AdvanceCore

SpecCore == InitCore /\ [][NextCore]_vars

\* The two callback slots: clients that register one handler after another
\* while reminders are dispatched and their timeouts written
MaxNowSlots == 360
PageCallbacks == {"dashboard", "client"}

RegisterPageRefreshAgain ==
  \E callback \in PageCallbacks :
    /\ pageRefreshCallback # callback
    /\ Do([setPageRefreshCallback(Mem, callback) EXCEPT !.hist.refresher = callback],
          "other")

AdvanceSlots == NoCallInFlight /\ NoEvalInFlight /\ Tick(MaxNowSlots, 0)

NextSlots ==
  \/ ServiceStart
  \/ RegisterReminderCallback
  \/ RegisterPageRefreshAgain
  \/ AlignTimerFires
  \/ IntervalTimerFires
  \/ DedupTimerFires
  \/ AutoMarkTimerFires
  \/ EvalSchedules
  \/ EvalMedications
  \/ CallRead
  \/ CallWrite
  \/ AdvanceSlots

SpecSlots == InitCore /\ [][NextSlots]_vars

\* The response window of one reminder with the runtime's scheduling: a timer
\* that is due fires and the clock goes on.  The user's click and the change of
\* the UTC date are not forced, and neither is the answer of the storage
\* service to a request.
NextWindow ==
  \/ FirstSignIn
  \/ AlignTimerFires
  \/ IntervalTimerFires
  \/ AutoMarkTimerFires
  \/ DedupTimerFires
  \/ CountdownFires
  \/ EvalSchedules
  \/ EvalMedications
  \/ CallRead
  \/ CallWrite
  \/ ModalTaken
  \/ AdvanceAdherence
  \/ UtcMidnight

FairWindow ==
  /\ WF_vars(AlignTimerFires)
  /\ WF_vars(IntervalTimerFires)
  /\ WF_vars(AutoMarkTimerFires)
  /\ WF_vars(DedupTimerFires)
  /\ WF_vars(CountdownFires)
  /\ WF_vars(AdvanceAdherence)

SpecWindow == Init /\ [][NextWindow]_vars /\ FairWindow

\* The escalation sweep over every content of a user's last four days of
\* logs and of the family contacts; nothing is scheduled
MaxNowSweep == 60
SweepLogTime == <<0, 0>>
SweepDay == ESCALATION_WINDOW_DAYS

\* medication m1: every day of the window missed, auto-marked or without a
\* record, the last day also taken; medication m2: three days missed, or none
LogsOfM1 ==
  {[d \in 0..SweepDay |-> st[d + 1]] :
     st \in {q \in [1..(SweepDay + 1) -> {"none", "missed", "not_taken_auto", "taken"}] :
               \A d \in 1..SweepDay : q[d] # "taken"}}
LogsOfM2 == {[d \in 0..SweepDay |-> "none"],
             [d \in 0..SweepDay |-> IF d = 0 THEN "none" ELSE "missed"]}

RECURSIVE NumberRows(_, _)
NumberRows(keys, n) ==
  IF keys = <<>> THEN {}
  ELSE {Row(n, Head(keys)[1], "u1", <<Head(keys)[2], SweepLogTime>>, Head(keys)[3], <<>>)}
         \cup NumberRows(Tail(keys), n + 1)

LogKeys(l1, l2) ==
  LET all == [i \in 1..(2 * (SweepDay + 1)) |->
                IF i <= SweepDay + 1 THEN <<"m1", i - 1, l1[i - 1]>>
                ELSE <<"m2", i - SweepDay - 2, l2[i - SweepDay - 2]>>]
  IN SelectSeq(all, LAMBDA k : k[3] # "none")

FamilyTables ==
  {{[id |-> 1, user_id |-> "u1", email |-> e1]} \cup extra :
     e1 \in {NoEmail, "c1@example.org"},
     extra \in {{}} \cup {{[id |-> 2, user_id |-> u, email |-> e2]} :
                              u \in Users, e2 \in {NoEmail, "c2@example.org"}}}

InitSweep ==
  /\ now = 0
  /\ today = SweepDay
  /\ medications = [m \in Meds |-> [user_id |-> "u1", active |-> TRUE]]
  /\ medication_schedules = {}
  /\ adherence_logs \in {NumberRows(LogKeys(l1, l2), 1) : l1 \in LogsOfM1, l2 \in LogsOfM2}
  /\ family_members \in FamilyTables
  /\ InitService
  /\ permission \in {"default", "granted"}

SweepLogs ==
  \E ok \in Outcomes :
    /\ sweep.pc = "logs"
    /\ Do(SweepLogsResolved(Mem, ok), "other")

SweepMedication ==
  \E ok \in Outcomes :
    /\ sweep.pc = "medication"
    /\ Do(SweepMedicationResolved(Mem, ok), "other")

SweepFamily ==
  \E ok \in Outcomes :
    /\ sweep.pc = "family"
    /\ Do(SweepFamilyResolved(Mem, ok), "other")

SweepAlert ==
  \E ok \in Outcomes :
    /\ sweep.pc = "alert"
    /\ Do(SweepAlertResolved(Mem, ok), "other")

AdvanceSweep == NoCallInFlight /\ Tick(MaxNowSweep, 0)

NextSweep ==
  \/ ServiceStart
  \/ AlignTimerFires
  \/ IntervalTimerFires
  \/ EvalSchedules
  \/ SweepLogs
  \/ SweepMedication
  \/ SweepFamily
  \/ SweepAlert
  \/ AdvanceSweep

SpecSweep == InitSweep /\ [][NextSweep]_vars

(***************************************************************************)
(* Properties                                                              *)
(***************************************************************************)
Ev(i) == hist.events[i]
EvIdx == DOMAIN hist.events

AutoSources == {"timer", "modalAuto"}

RowsOf(m, u, sdt) == SelectLogs(adherence_logs, m, u, sdt)

\* C1: when a record with status taken or missed is stored for an occurrence
\* before its 5-minute timer fires, the timer's recordAdherenceStatus call
\* performs no write.
TimerWriteSuppressed ==
  \A i, j \in EvIdx :
    (/\ i < j
     /\ Ev(i).type = "fire" /\ Ev(i).flag
     /\ Ev(j).type = "write" /\ Ev(j).src = "timer"
     /\ Ev(j).user = Ev(i).user /\ Ev(j).med = Ev(i).med)
      => Ev(j).occ # Ev(i).occ

\* C2: under every interleaving of an automatic timeout (read, then write) with
\* the user's marks, no automatic write changes a record whose stored status is
\* taken or missed to not_taken_auto.
TerminalNeverOverwrittenByAuto ==
  \A j \in EvIdx :
    (Ev(j).type = "write" /\ Ev(j).src \in AutoSources) => ~Terminal(Ev(j).prev)

\* C3: the adherence store holds at most one record per (medication, user,
\* scheduled datetime).
OneRecordPerOccurrence ==
  \A r1, r2 \in adherence_logs :
    (/\ r1.medication_id = r2.medication_id
     /\ r1.user_id = r2.user_id
     /\ r1.scheduled_time = r2.scheduled_time) => r1 = r2

\* the response window of the dispatch Ev(i) is over and every automatic writer
\* armed for it has finished
WindowElapsed(i) ==
  /\ now >= Ev(i).at + (AUTO_NOT_TAKEN_TIMEOUT_MS \div MS_PER_SECOND)
  /\ \A t \in timers : t.kind \in {"auto", "countdown"} => t.due > now
  /\ NoCallInFlight

\* C4: for a dispatched occurrence on which the user takes no action, with the
\* service running and storage succeeding, once the 5 minutes have elapsed
\* there is exactly one record of the occurrence, with status not_taken_auto and
\* taken_at = null (stated for windows within one UTC date).
ExactlyOneAutoRecord ==
  \A i \in EvIdx :
    (/\ Ev(i).type = "dispatch"
     /\ hist.userOps = 0 /\ hist.failures = 0 /\ hist.epoch = Ev(i).epoch
     /\ Ev(i).occ[1] = today
     /\ WindowElapsed(i))
      => \E r \in adherence_logs :
           /\ RowsOf(Ev(i).med, Ev(i).user, Ev(i).occ) = {r}
           /\ r.status = "not_taken_auto" /\ r.taken_at = <<>>

\* the user's mark Ev(i) was made in the reminder modal while the auto-mark
\* timer of its key was pending
ModalMarkInWindow(i) ==
  /\ Ev(i).type = "mark" /\ Ev(i).src \in {"modalTaken", "modalMissed"}
  /\ Ev(i).flag

SameKey(a, b) == a.user = b.user /\ a.med = b.med /\ a.occ[2] = b.occ[2]

\* the call of the mark Ev(i) has just returned after writing
MarkWritten(i) ==
  /\ Ev(Len(hist.events)).type = "done" /\ Ev(Len(hist.events)).flag
  /\ Ev(Len(hist.events)).src = Ev(i).src
  /\ SameKey(Ev(Len(hist.events)), Ev(i))

\* C5: a user's mark (taken or missed) made in the modal inside the response
\* window cancels the pending auto-mark timer of its key, the record ends taken
\* with taken_at set (or missed with taken_at = null), and no automatic
\* not_taken_auto write for the occurrence happens afterwards.
UserMarkCancelsAuto ==
  \A i \in EvIdx :
    ModalMarkInWindow(i) =>
      /\ \A j \in EvIdx :
           (j > i /\ SameKey(Ev(j), Ev(i))) =>
             /\ Ev(j).type # "fire"
             /\ ~(Ev(j).type = "write" /\ Ev(j).status = "not_taken_auto")
      /\ ~TimerPending(Mem, Ev(i).user, Ev(i).med, Ev(i).occ[2])
      /\ MarkWritten(i) =>
           \E r \in RowsOf(Ev(i).med, Ev(i).user, Ev(i).occ) :
             /\ r.status = Ev(i).status
             /\ (r.taken_at # <<>>) <=> (Ev(i).status = "taken")

\* a modal mark-taken inside the window was written and the 5 minutes are over
UserMarkCancelsAutoWitness ==
  \E i, d \in EvIdx :
    /\ ModalMarkInWindow(i) /\ Ev(i).status = "taken" /\ MarkWritten(i)
    /\ Ev(d).type = "dispatch" /\ d < i /\ SameKey(Ev(d), Ev(i))
    /\ now >= Ev(d).at + (AUTO_NOT_TAKEN_TIMEOUT_MS \div MS_PER_SECOND)
    /\ \A t \in timers : t.due > now

\* C6: across start, stop and ticks within one day each due occurrence is
\* surfaced (callback or fallback notification) exactly once; stopping and
\* restarting inside the due minute does not surface it a second time.
SurfacedOncePerOccurrence ==
  \A i, j \in EvIdx :
    (/\ Ev(i).type = "dispatch" /\ Ev(j).type = "dispatch"
     /\ Ev(i).user = Ev(j).user /\ Ev(i).med = Ev(j).med /\ Ev(i).occ = Ev(j).occ)
      => i = j

\* C7: while the service runs the reminder callback fires at most once per
\* (medication id, time-of-day) within any 61-second window, also when
\* evaluations overlap.
CallbackOncePerWindow ==
  \A i, j \in EvIdx :
    (/\ i < j
     /\ Ev(i).type = "dispatch" /\ Ev(j).type = "dispatch"
     /\ Ev(i).src = "callback" /\ Ev(j).src = "callback"
     /\ Ev(i).flag /\ Ev(j).flag /\ Ev(i).epoch = Ev(j).epoch
     /\ Ev(i).med = Ev(j).med /\ Ev(i).occ[2] = Ev(j).occ[2])
      => Ev(j).at - Ev(i).at >= DEDUP_CLEANUP_MS \div MS_PER_SECOND

\* the timers the dispatcher arms
DispatchTimerKinds == {"auto", "dedup"}

\* C9: after stopReminderService() was called twice in a row no timer started
\* by the service is pending (stated for the timers armed at dispatch: no
\* response-window timer and no dedup-expiry timer).
StopLeavesNoTimers ==
  hist.lastOp = "stop2" => \A t \in timers : t.kind \notin DispatchTimerKinds

\* C10: a startReminderService call made while the service is started (after a
\* start and before a stop) runs no evaluation and no escalation sweep and
\* creates no timer.
ReentrantStartIsNoOp ==
  [][(hist'.lastOp = "start" /\ hist.started)
       => (/\ hist'.evalsRun = hist.evalsRun
           /\ hist'.sweeps = hist.sweeps
           /\ timers' = timers
           /\ evals' = evals)]_vars

\* the schedules that are due for userId at time-of-day T
Qualifying(userId, T) ==
  {S \in medication_schedules :
     /\ S.reminder_time = T /\ S.active
     /\ medications[S.medication_id].active
     /\ medications[S.medication_id].user_id = userId}

EntryOf(S) == [id |-> S.medication_id, reminder_time |-> S.reminder_time]

Entries == {[id |-> m, reminder_time |-> t] : m \in Meds, t \in FetchTimes}

\* C8: fetchDueReminders(userId) returns an entry for a schedule S whose
\* time-of-day equals the current HH:MM if and only if S is active and its
\* medication is active and owned by userId (one entry per such schedule), and
\* never an entry of another time-of-day.
FetchReturnsExactlyDue ==
  \A k \in DOMAIN hist.fetched :
    hist.fetched[k].ok =>
      LET f == hist.fetched[k]
      IN /\ \A e \in Entries :
              Cardinality({n \in DOMAIN f.result : f.result[n] = e})
                = Cardinality({S \in Qualifying(f.user, f.time) : EntryOf(S) = e})
         /\ \A n \in DOMAIN f.result : f.result[n].reminder_time = f.time

\* a fetch returned one schedule and left out another of the same time-of-day
\* whose medication belongs to somebody else, and one that is inactive or of
\* another time-of-day
FetchReturnsExactlyDueWitness ==
  \E k \in DOMAIN hist.fetched :
    LET f == hist.fetched[k]
    IN /\ f.ok /\ Len(f.result) = 1
       /\ \E S \in medication_schedules :
            /\ EntryOf(S) # f.result[1]
            /\ S.reminder_time = f.time /\ S.active
            /\ medications[S.medication_id].active
            /\ medications[S.medication_id].user_id # f.user

\* C11: after stopReminderService() has returned no timer of the stopped
\* session starts a tick evaluation: while the service is stopped, and until
\* it is started again, no checkAndNotifyReminders run begins.
NoTickAfterStop ==
  [][(~hist.started /\ ~hist'.started) => hist'.evalsRun = hist.evalsRun]_vars

\* C12: after stopReminderService() the dedup set and the response-timer map
\* are empty and stay empty until the next start, also when an evaluation was
\* awaiting its fetch at the time of the stop (stated for a stop made while
\* the user stays signed in).
EmptyWhileStopped ==
  (~hist.started /\ user # NoUser)
    => (lastNotifiedReminders = {} /\ autoMarkTimeouts = {})

\* C13: taken and missed are terminal: no write of the program changes the
\* status of a record whose stored status is taken or missed.
TerminalStaysTerminal ==
  \A j \in EvIdx :
    (Ev(j).type = "write" /\ Terminal(Ev(j).prev)) => Ev(j).status = Ev(j).prev

SameRecordKey(a, b) == a.user = b.user /\ a.med = b.med /\ a.sdt = b.sdt

\* C14: a not_taken_auto record is overridable in place: when the user marks
\* the dose taken after the record of the occurrence was written with status
\* not_taken_auto, the write of that mark updates the stored record (it does
\* not insert a second one) and leaves it taken with taken_at set.
AutoRecordOverriddenInPlace ==
  \A i \in EvIdx : \A k \in EvIdx : \A j \in EvIdx :
    ( /\ i < k /\ k < j
      /\ Ev(i).type = "write" /\ Ev(i).status = "not_taken_auto"
      /\ Ev(k).type = "mark" /\ Ev(k).status = "taken"
      /\ Ev(j).type = "write" /\ Ev(j).src = Ev(k).src
      /\ SameRecordKey(Ev(i), Ev(k)) /\ SameRecordKey(Ev(i), Ev(j)) )
    => Ev(j).prev # "none"

\* the step in which an evaluation's fetchDueReminders returned
FetchReturned == \E i \in 1..MaxEvals : evals[i].pc # "idle" /\ evals'[i].pc = "idle"

\* C15: fetchDueReminders returns the empty list when the schedules query
\* fails, when the medications query fails, and when no schedule qualifies
\* (nothing matches, or the user has no medication); and a tick whose fetch
\* returned the empty list dispatches nothing and arms no timer.
EmptyFetchIsSilent ==
  [][FetchReturned =>
       LET f == hist'.fetched[1]
       IN /\ (~f.ok \/ Qualifying(f.user, f.time) = {}) => f.result = <<>>
          /\ f.result = <<>> =>
               /\ timers' = timers
               /\ lastNotifiedReminders' = lastNotifiedReminders
               /\ autoMarkTimeouts' = autoMarkTimeouts
               /\ activeReminder' = activeReminder
               /\ hist'.events = hist.events]_vars

\* a fetch failed at a minute for which a reminder of the user was due, and
\* nothing was ever dispatched
EmptyFetchIsSilentWitness ==
  /\ hist.fetched # <<>>
  /\ ~hist.fetched[1].ok
  /\ Qualifying(hist.fetched[1].user, hist.fetched[1].time) # {}
  /\ hist.evalsRun = 1
  /\ lastNotifiedReminders = {}
  /\ \A t \in timers : t.kind \notin {"auto", "dedup"}

\* the events the step added
NewEvents == (Len(hist.events) + 1)..Len(hist'.events)

\* C16: no failure escapes checkAndNotifyReminders, and a failure while
\* handling one due reminder (here: the registered reminder callback throws)
\* does not keep the remaining due reminders of the tick from being
\* dispatched: every reminder the fetch returned that was not in the dedup set
\* is dispatched in that tick.
EveryDueReminderDispatched ==
  [][FetchReturned =>
       LET f == hist'.fetched[1]
       IN \A n \in DOMAIN f.result :
            <<f.result[n].id, f.result[n].reminder_time>> \notin lastNotifiedReminders
              => \E k \in NewEvents :
                   /\ hist'.events[k].type = "dispatch"
                   /\ hist'.events[k].med = f.result[n].id
                   /\ hist'.events[k].sdt[2] = f.result[n].reminder_time]_vars

\* the dates, at or after `since`, on which userId has a missed or
\* not_taken_auto record of medication m
MissedDates(userId, m, since) ==
  {r.scheduled_time[1] :
     r \in {x \in adherence_logs :
              /\ x.user_id = userId /\ x.medication_id = m
              /\ x.status \in {"missed", "not_taken_auto"}
              /\ TimestampGte(x.scheduled_time, since)}}

\* the medications of userId with such records on three distinct dates
Escalated(userId, since) ==
  {m \in Meds : Cardinality(MissedDates(userId, m, since)) >= MISSED_DAYS_THRESHOLD}

AlertsTo(f) == {k \in DOMAIN alerts : alerts[k].member = f.id}

\* the sweep of u1 has returned and none of its requests failed
SweepCompleted == hist.swept # <<>> /\ hist.failures = 0

AutoTimers == {t \in timers : t.kind = "auto"}

\* C18: at most one response-window timer is pending per key (user,
\* medication, reminder time), and it is the one autoMarkTimeouts holds for
\* the key: arming a timer for a key that has one cancels the old timer, so
\* only the new one remains to fire.
OneAutoTimerPerKey ==
  \A t \in AutoTimers :
    /\ MapGet(autoMarkTimeouts, getReminderKey(t.user, t.med, t.time)) = t.id
    /\ \A o \in AutoTimers :
         (o.user = t.user /\ o.med = t.med /\ o.time = t.time) => o = t

\* an occurrence was dispatched twice in one session of the service (the
\* second time by an evaluation whose fetch outlasted the dedup window), and
\* the only timer pending for its key is the one the second dispatch armed
OneAutoTimerPerKeyWitness ==
  \E i \in EvIdx : \E j \in EvIdx :
    /\ i < j
    /\ Ev(i).type = "dispatch" /\ Ev(j).type = "dispatch"
    /\ SameKey(Ev(i), Ev(j)) /\ Ev(i).epoch = Ev(j).epoch
    /\ Ev(i).at < Ev(j).at
    /\ Ev(j).at < Ev(i).at + (AUTO_NOT_TAKEN_TIMEOUT_MS \div MS_PER_SECOND)
    /\ \E t \in AutoTimers :
         /\ t.user = Ev(j).user /\ t.med = Ev(j).med /\ t.time = Ev(j).occ[2]
         /\ t.due = Ev(j).at + (AUTO_NOT_TAKEN_TIMEOUT_MS \div MS_PER_SECOND)

\* C19: every dispatch of a due reminder has armed the occurrence's
\* response-window timer (due 5 minutes later) and, when a page-refresh
\* callback is registered, has called it, before the reminder callback or the
\* fallback notification is entered; and the dispatch creates no record.
DispatchArmsAndRefreshesFirst ==
  [][\A k \in NewEvents :
       hist'.events[k].type = "dispatch" =>
         LET e == hist'.events[k]
         IN /\ e.armed
            /\ \E t \in timers' :
                 /\ t.kind = "auto" /\ t.user = e.user /\ t.med = e.med
                 /\ t.time = e.occ[2]
                 /\ t.due = now + (AUTO_NOT_TAKEN_TIMEOUT_MS \div MS_PER_SECOND)
            /\ pageRefreshCallback # "null"
                 => e.refreshes = hist.refreshes + (k - Len(hist.events))
            /\ adherence_logs' = adherence_logs]_vars

\* two reminders were dispatched in one tick through the registered callback
\* with a page-refresh callback registered, and one reminder was dispatched as
\* a notification
DispatchArmsAndRefreshesFirstWitness ==
  /\ \E i \in EvIdx :
       /\ Ev(i).type = "dispatch" /\ Ev(i).src = "callback" /\ Ev(i).status = "modal"
       /\ Ev(i).armed /\ Ev(i).refreshes = 2
  /\ \E i \in EvIdx :
       Ev(i).type = "dispatch" /\ Ev(i).src = "notification" /\ Ev(i).armed

CloseTimers(ts) == {t \in ts : t.kind = "close"}

\* C20: each dispatched reminder takes exactly one route.  With a reminder
\* callback registered the callback is called with the reminder and no
\* notification is attempted; with none registered showNotification is called,
\* which shows a notification when permission is granted and otherwise shows
\* nothing and raises no error.
ExactlyOneRoute ==
  [][/\ Cardinality({k \in NewEvents : hist'.events[k].type = "dispatch"})
          = Cardinality(lastNotifiedReminders' \ lastNotifiedReminders)
     /\ \A k \in NewEvents :
          hist'.events[k].type = "dispatch" =>
            LET e == hist'.events[k]
            IN /\ <<e.med, e.occ[2]>> \in lastNotifiedReminders' \ lastNotifiedReminders
               /\ \A o \in NewEvents :
                    (hist'.events[o].type = "dispatch" /\ hist'.events[o].med = e.med
                       /\ hist'.events[o].occ = e.occ) => o = k
               /\ reminderCallback # "null" =>
                    /\ e.src = "callback"
                    /\ CloseTimers(timers') = CloseTimers(timers)
                    /\ (reminderCallback = "app" /\ k = Len(hist'.events)) =>
                         activeReminder' = [id |-> e.med, reminder_time |-> e.occ[2]]
               /\ reminderCallback = "null" =>
                    /\ e.src = "notification"
                    /\ activeReminder' = activeReminder
                    /\ hist'.caught = hist.caught
                    /\ permission = "granted" =>
                         (e.status = "shown" /\ CloseTimers(timers') # CloseTimers(timers))
                    /\ permission # "granted" =>
                         (e.status = "silent" /\ CloseTimers(timers') = CloseTimers(timers))]_vars

\* a reminder was dispatched as a notification that showed nothing for want
\* of permission, and later one was handed to the callback registered since
ExactlyOneRouteWitness ==
  \E i \in EvIdx : \E j \in EvIdx :
    /\ i < j
    /\ Ev(i).type = "dispatch" /\ Ev(i).src = "notification" /\ Ev(i).status = "silent"
    /\ Ev(j).type = "dispatch" /\ Ev(j).src = "callback" /\ Ev(j).status = "modal"

\* C21: recordAdherenceStatus calls the registered page-refresh callback once
\* when its insert or update succeeded, and not at all when it returns after a
\* failed read, a failed write or the skipIfCompleted guard.
RefreshAfterSuccessfulWriteOnly ==
  [][\A k \in NewEvents :
       hist'.events[k].type = "done" =>
         LET e == hist'.events[k]
             wrote == \E w \in NewEvents :
                        /\ hist'.events[w].type = "write"
                        /\ hist'.events[w].src = e.src
         IN /\ e.flag = wrote
            /\ hist'.refreshes - hist.refreshes
                 = IF wrote /\ pageRefreshCallback # "null" THEN 1 ELSE 0
            /\ (wrote /\ pageRefreshCallback # "null" /\ user # NoUser)
                 => todayReminders'.pending]_vars

\* one call returned after its write and the page was refreshed, another
\* returned without writing (failure or guard)
RefreshAfterSuccessfulWriteOnlyWitness ==
  /\ \E i \in EvIdx : Ev(i).type = "done" /\ Ev(i).flag
  /\ \E i \in EvIdx : Ev(i).type = "done" /\ ~Ev(i).flag
  /\ pageRefreshCallback # "null"
  /\ hist.refreshes >= 2

ServiceSources == {"timer", "modalAuto", "modalTaken", "modalMissed"}

RowOfEvent(r, e) ==
  r.medication_id = e.med /\ r.user_id = e.user /\ r.scheduled_time = e.sdt

\* C22: every record written by recordAdherenceStatus has taken_at set exactly
\* when its status is taken; a write of missed or not_taken_auto leaves taken_at
\* null, also when it updates a record that was taken before.
TakenAtIffTaken ==
  [][\A k \in NewEvents :
       LET e == hist'.events[k]
       IN (e.type = "write" /\ e.src \in ServiceSources) =>
            /\ \E r \in adherence_logs' : RowOfEvent(r, e) /\ r.status = e.status
            /\ \A r \in adherence_logs' :
                 (RowOfEvent(r, e) /\ r.status = e.status)
                   => ((r.taken_at # <<>>) <=> (r.status = "taken"))]_vars

TakenAtIffTakenWitness ==
  \E i \in EvIdx :
    /\ Ev(i).type = "write" /\ Ev(i).src \in ServiceSources
    /\ Ev(i).prev = "taken" /\ Ev(i).status # "taken"
    /\ \E r \in adherence_logs :
         RowOfEvent(r, Ev(i)) /\ r.status = Ev(i).status /\ r.taken_at = <<>>

\* the insert or update of the call in slot i failed in this step
WriteFailed(i) ==
  /\ calls[i].pc = "write" /\ calls'[i].pc = "idle"
  /\ hist'.writeFailures = hist.writeFailures + 1

KeyOfCall(c) == getReminderKey(c.user, c.med, c.time)

\* what a failed write leaves alone: timers of the response window, the map
\* that holds them, the dedup set and the table
NothingRolledBack(c) ==
  /\ AutoTimers' = AutoTimers
  /\ autoMarkTimeouts' = autoMarkTimeouts
  /\ lastNotifiedReminders' = lastNotifiedReminders
  /\ adherence_logs' = adherence_logs
  /\ (c.src = "timer") => MapGet(autoMarkTimeouts', KeyOfCall(c)) = 0
  /\ (c.src \in {"modalTaken", "modalMissed"})
       => MapGet(autoMarkTimeouts', KeyOfCall(c)) \notin TimerIds(timers')

\* C23: a failed adherence write rolls nothing back and stores nothing: the
\* timers of the response window, the map holding them, the dedup set and the
\* table are as they were before the write resolved; after a failed write of
\* the automatic timeout the key has no timer, and after a failed write from
\* the modal's buttons the timer of the key is not pending.
FailedWriteRollsNothingBack ==
  [][\A i \in 1..MaxCalls : WriteFailed(i) => NothingRolledBack(calls[i])]_vars

\* C23 as stated: a failed write rolls nothing back, and after a failed write
\* of the automatic timeout no record exists for the occurrence.
FailedWriteLeavesNoRecord ==
  [][\A i \in 1..MaxCalls :
       WriteFailed(i) =>
         /\ NothingRolledBack(calls[i])
         /\ (calls[i].src = "timer")
              => SelectLogs(adherence_logs', calls[i].med, calls[i].user, calls[i].sdt) = {}]_vars

FailedWriteWitness ==
  /\ \E i \in EvIdx : Ev(i).type = "done" /\ Ev(i).src = "timer" /\ ~Ev(i).flag
  /\ hist.writeFailures = 1
  /\ adherence_logs = {}
  /\ AutoTimers = {} /\ autoMarkTimeouts = {}

\* C24: every key added to the dedup set is removed again 61 seconds after it
\* was added, whatever the outcome of its dispatch: once more than 61 seconds
\* have passed since a reminder was dispatched, its key is not in
\* lastNotifiedReminders.
DedupKeyRemovedAfterCleanup ==
  \A i \in EvIdx :
    (Ev(i).type = "dispatch" /\ now > Ev(i).at + (DEDUP_CLEANUP_MS \div MS_PER_SECOND))
      => <<Ev(i).med, Ev(i).sdt[2]>> \notin lastNotifiedReminders

\* C25: a start that passes the guard arms the alignment timer for the next
\* minute boundary strictly after the start instant: with the clock at second
\* s of the minute the delay is 60 - s seconds, never 0.
AlignedDelayIsSixtyMinusSeconds ==
  [][hist'.starts = hist.starts + 1 =>
       \E t \in timers' \ timers :
         /\ t.kind = "align"
         /\ t.due - now = SECONDS_PER_MINUTE - getSeconds(now)
         /\ t.due > now]_vars

\* C26: the escalation sweep runs once in every start that passes the guard
\* and in no other step: not when the alignment timer fires and not on the
\* recurring tick.
SweepOncePerStart ==
  [][hist'.sweeps - hist.sweeps = hist'.starts - hist.starts]_vars

SweepOncePerStartWitness ==
  /\ hist.starts = MaxStarts /\ hist.sweeps = MaxStarts
  /\ hist.evalsRun >= 2 * MaxStarts
  /\ reminderCheckInterval # 0

AlertedMedications == {alerts[k].medication : k \in DOMAIN alerts}

HasContactWithEmail(userId) ==
  \E f \in family_members : f.user_id = userId /\ f.email # NoEmail

DuplicateEntriesArmTwoTimers ==
  [][FetchReturned =>
       LET f == hist'.fetched[1]
       IN (/\ f.ok /\ Len(f.result) = 2 /\ f.result[1] = f.result[2]
           /\ <<f.result[1].id, f.result[1].reminder_time>> \notin lastNotifiedReminders)
            => Cardinality({t \in timers' \ timers : t.kind = "auto"}) = 2]_vars

\* C29: each callback slot holds one handler, the one registered last: a
\* dispatch surfaces the reminder through the reminder handler registered last
\* (as a browser notification when none is), and every page refresh of a
\* dispatch or of a write calls the page-refresh handler registered last; a
\* handler that was replaced is not called again.
LastRegisteredHandlerOnly ==
  [][/\ \A k \in NewEvents :
          hist'.events[k].type = "dispatch" =>
            hist'.events[k].status =
              CASE hist.handler = "app" -> "modal"
                [] hist.handler = "throws" -> "threw"
                [] OTHER -> IF permission = "granted" THEN "shown" ELSE "silent"
     /\ hist'.refreshes > hist.refreshes =>
          /\ hist.refresher # "null"
          /\ hist'.refreshed = hist.refresher]_vars

\* the reminder handler was replaced between two dispatches and the
\* page-refresh handler between a dispatch and a write
LastRegisteredHandlerOnlyWitness ==
  /\ \E i, j \in EvIdx :
       /\ i < j
       /\ Ev(i).type = "dispatch" /\ Ev(i).status = "threw"
       /\ Ev(j).type = "dispatch" /\ Ev(j).status = "modal"
       /\ Ev(i).refreshes < Ev(j).refreshes
  /\ \E i \in EvIdx : Ev(i).type = "done" /\ Ev(i).flag
  /\ hist.refreshed = "client"
  /\ hist.refreshes >= 3

\* C30: isReminderServiceRunning() is true in every state after a
\* startReminderService call with no stopReminderService call since, the
\* states before the first minute-boundary timer fired included, and false in
\* every other state.
RunningBetweenStartAndStop == isReminderServiceRunning <=> hist.started

\* C31: the automatic timeout's record lookup and write use the scheduled
\* datetime of the occurrence that was dispatched: the date computed when the
\* timer fires is the date computed at dispatch, also when the UTC date changed
\* during the response window.
TimerTargetsDispatchedOccurrence ==
  /\ \A i \in 1..MaxCalls : calls[i].src = "timer" => calls[i].sdt = calls[i].occ
  /\ \A i \in EvIdx :
       (Ev(i).src = "timer" /\ Ev(i).type \in {"write", "done"}) => Ev(i).sdt = Ev(i).occ

DispatchedOccurrence(m, d) ==
  \E i \in EvIdx : Ev(i).type = "dispatch" /\ Ev(i).med = m /\ Ev(i).occ[1] = d

RecordedOccurrence(m, d) ==
  \E i \in EvIdx :
    /\ Ev(i).type = "dispatch" /\ Ev(i).med = m /\ Ev(i).occ[1] = d
    /\ RowsOf(m, Ev(i).user, Ev(i).occ) # {}

\* every request sent to the storage service is answered
StorageAnswers == []<>(NoCallInFlight /\ NoEvalInFlight)

ReadFailed(i) ==
  /\ calls[i].pc = "read" /\ calls'[i].pc = "idle"
  /\ \/ hist'.failures = hist.failures + 1
     \/ Cardinality(SelectLogs(adherence_logs, calls[i].med, calls[i].user, calls[i].sdt)) > 1

\* C33: when the record lookup of recordAdherenceStatus returns an error the
\* call inserts and updates nothing, leaves the adherence store, the timer map
\* and its timers as they are, and does not call the page-refresh callback.
FailedReadChangesNothing ==
  [][\A i \in 1..MaxCalls :
       ReadFailed(i) =>
         /\ adherence_logs' = adherence_logs
         /\ autoMarkTimeouts' = autoMarkTimeouts
         /\ AutoTimers' = AutoTimers
         /\ hist'.refreshes = hist.refreshes
         /\ \A k \in NewEvents : hist'.events[k].type # "write"]_vars

\* a lookup failed while the page-refresh callback was registered and the
\* response-window timer of the key was pending
FailedReadChangesNothingWitness ==
  /\ hist.failures = 1 /\ hist.writeFailures = 0
  /\ \E i \in EvIdx : Ev(i).type = "done" /\ ~Ev(i).flag
  /\ pageRefreshCallback # "null"
  /\ AutoTimers # {}
  /\ adherence_logs = {}

\* C34: every key of autoMarkTimeouts has exactly one entry, and the handle it
\* holds is a response-window timer of that key that is still pending (it has
\* neither fired nor been cancelled).
EveryMapKeyHasPendingTimer ==
  \A e \in autoMarkTimeouts :
    /\ \A o \in autoMarkTimeouts : o[1] = e[1] => o = e
    /\ Cardinality({t \in AutoTimers :
                      t.id = e[2] /\ getReminderKey(t.user, t.med, t.time) = e[1]}) = 1

\* the timer of a key fired, removed its key and its write went through
EveryMapKeyHasPendingTimerWitness ==
  /\ autoMarkTimeouts = {}
  /\ AutoTimers = {}
  /\ \E i \in EvIdx : Ev(i).type = "fire" /\ Ev(i).src = "timer"
  /\ \E i \in EvIdx : Ev(i).type = "write" /\ Ev(i).src = "timer"
====
